---- MODULE Spec2Model ----
(***************************************************************************)
(* Model of src/src/utils/random.ts: seededRandom(seed) returns a closure  *)
(* over one private `state`; each call (min, max) advances the state by a  *)
(* linear congruential step and scales it into a bounded integer.          *)
(*                                                                         *)
(* TypeScript numbers are IEEE-754 doubles.  Every number of the model is  *)
(* an integer held exactly as a sign and a magnitude of 15-bit limbs       *)
(* (least significant first, no leading zero limb), and every arithmetic   *)
(* operator of the source is modelled as the exact integer operation       *)
(* followed by the rounding to 53 significant bits that a double applies.  *)
(***************************************************************************)
EXTENDS Integers, Sequences, FiniteSets

(*--------------------------- exact magnitudes ----------------------------*)
LimbBits == 15
Base == 2^LimbBits

RECURSIVE Trim(_)
Trim(m) ==
  IF m = <<>> THEN <<>>
  ELSE IF m[Len(m)] = 0 THEN Trim(SubSeq(m, 1, Len(m) - 1)) ELSE m

Limb(m, i) == IF i >= 1 /\ i <= Len(m) THEN m[i] ELSE 0

RECURSIVE MagAddFrom(_, _, _, _)
MagAddFrom(x, y, i, carry) ==
  IF i > Len(x) /\ i > Len(y)
  THEN (IF carry = 0 THEN <<>> ELSE <<carry>>)
  ELSE LET s == Limb(x, i) + Limb(y, i) + carry
       IN  <<s % Base>> \o MagAddFrom(x, y, i + 1, s \div Base)

MagAdd(x, y) == MagAddFrom(x, y, 1, 0)

RECURSIVE MagSubFrom(_, _, _, _)
MagSubFrom(x, y, i, borrow) ==
  IF i > Len(x) THEN <<>>
  ELSE LET d == Limb(x, i) - Limb(y, i) - borrow
       IN  IF d < 0 THEN <<d + Base>> \o MagSubFrom(x, y, i + 1, 1)
                    ELSE <<d>> \o MagSubFrom(x, y, i + 1, 0)

\* x - y for magnitudes with y <= x
MagSub(x, y) == Trim(MagSubFrom(x, y, 1, 0))

RECURSIVE MagLessAt(_, _, _)
MagLessAt(x, y, i) ==
  IF i = 0 THEN FALSE
  ELSE IF x[i] # y[i] THEN x[i] < y[i] ELSE MagLessAt(x, y, i - 1)

MagLess(x, y) ==
  IF Len(x) # Len(y) THEN Len(x) < Len(y) ELSE MagLessAt(x, y, Len(x))

RECURSIVE MulLimbFrom(_, _, _, _)
MulLimbFrom(x, d, i, carry) ==
  IF i > Len(x) THEN (IF carry = 0 THEN <<>> ELSE <<carry>>)
  ELSE LET p == x[i] * d + carry
       IN  <<p % Base>> \o MulLimbFrom(x, d, i + 1, p \div Base)

RECURSIVE MagMulFrom(_, _, _)
MagMulFrom(x, y, j) ==
  IF j > Len(y) THEN <<>>
  ELSE MagAdd(MulLimbFrom(x, y[j], 1, 0), <<0>> \o MagMulFrom(x, y, j + 1))

MagMul(x, y) == Trim(MagMulFrom(x, y, 1))

MagPow2(k) == [i \in 1..(k \div LimbBits) |-> 0] \o <<2^(k % LimbBits)>>

RECURSIVE BitsOf(_)
BitsOf(d) == IF d = 0 THEN 0 ELSE 1 + BitsOf(d \div 2)

\* number of significant bits of a magnitude
BitLen(m) ==
  IF m = <<>> THEN 0 ELSE LimbBits * (Len(m) - 1) + BitsOf(m[Len(m)])

\* floor(m / 2^k)
MagShiftRight(m, k) ==
  LET j == k \div LimbBits
      r == k % LimbBits
      n == Len(m) - j
  IN  IF n <= 0 THEN <<>>
      ELSE Trim([i \in 1..n |->
                  (m[i + j] \div 2^r) + (Limb(m, i + j + 1) % 2^r) * 2^(LimbBits - r)])

\* m * 2^k
MagShiftLeft(m, k) == IF m = <<>> THEN <<>> ELSE MagMul(m, MagPow2(k))

\* m mod 2^k
MagLowBits(m, k) ==
  LET j == k \div LimbBits
      r == k % LimbBits
      n == IF Len(m) <= j THEN Len(m) ELSE j + 1
  IN  Trim([i \in 1..n |-> IF i <= j THEN m[i] ELSE m[i] % 2^r])

(*---------------------------- signed integers ----------------------------*)
Num(neg, mag) == [neg |-> neg /\ mag # <<>>, mag |-> mag]

\* the number with value n, for an n that TLC's integers hold (|n| < 2^31)
Int2Num(n) ==
  LET a == IF n < 0 THEN 0 - n ELSE n
  IN  Num(n < 0, Trim(<<a % Base, (a \div Base) % Base, a \div (Base * Base)>>))

Pow2(k) == Num(FALSE, MagPow2(k))
Zero == Num(FALSE, <<>>)
Neg(x) == Num(~x.neg, x.mag)

ExactAdd(x, y) ==
  IF x.neg = y.neg THEN Num(x.neg, MagAdd(x.mag, y.mag))
  ELSE IF MagLess(x.mag, y.mag) THEN Num(y.neg, MagSub(y.mag, x.mag))
       ELSE Num(x.neg, MagSub(x.mag, y.mag))

ExactMul(x, y) == Num(x.neg # y.neg, MagMul(x.mag, y.mag))

Less(x, y) ==
  IF x.neg # y.neg THEN x.neg
  ELSE IF x.neg THEN MagLess(y.mag, x.mag) ELSE MagLess(x.mag, y.mag)

LessEq(x, y) == ~Less(y, x)

(*------------------------- IEEE-754 double numbers -----------------------*)
\* significand width of a TypeScript `number`
Significand == 53

\* round-to-nearest, ties-to-even, to Significand significant bits
MagRound(m) ==
  LET sh == BitLen(m) - Significand
  IN  IF sh <= 0 THEN m
      ELSE LET q    == MagShiftRight(m, sh)
               r    == MagLowBits(m, sh)
               half == MagPow2(sh - 1)
               up   == MagLess(half, r) \/ (r = half /\ q[1] % 2 = 1)
           IN  MagShiftLeft(IF up THEN MagAdd(q, <<1>>) ELSE q, sh)

RoundDouble(x) == Num(x.neg, MagRound(x.mag))

\* the operators + - * of the source, on integer-valued doubles
Add(x, y) == RoundDouble(ExactAdd(x, y))
Sub(x, y) == RoundDouble(ExactAdd(x, Neg(y)))
Mul(x, y) == RoundDouble(ExactMul(x, y))

\* x % 2^k: the remainder takes the sign of the dividend and is exact
Rem(x, k) == Num(x.neg, MagLowBits(x.mag, k))

\* Math.floor(x / 2^k) for an integer x
FloorDivPow2(x, k) ==
  LET q == MagShiftRight(x.mag, k)
  IN  IF x.neg /\ MagLowBits(x.mag, k) # <<>>
      THEN Num(TRUE, MagAdd(q, <<1>>))
      ELSE Num(x.neg, q)

(*------------------------------ seededRandom -----------------------------*)
Multiplier == 1664525
Increment == 1013904223
\* the modulus 2147483648 is 2^ModulusBits
ModulusBits == 31
Modulus == Pow2(ModulusBits)

\* line 8 without the remainder
NextStateNoRem(state) ==
  Add(Mul(state, Int2Num(Multiplier)), Int2Num(Increment))

\* line 8: (state * 1664525 + 1013904223) % 2147483648
NextState(state) ==
  Rem(Add(Mul(state, Int2Num(Multiplier)), Int2Num(Increment)), ModulusBits)

\* line 9: Math.floor((state / 2147483648) * (max - min)) + min
\* state / 2147483648 is exact (a division by a power of two), so the rounded
\* product is the rounding of state * (max - min) scaled by 2^-31
Scale(state, min, max) ==
  Add(FloorDivPow2(Mul(state, Sub(max, min)), ModulusBits), min)

\* a call of the closure computed from the state before the update
CallStale(state, min, max) ==
  [state |-> NextState(state),
   completion |-> [kind |-> "return", value |-> Scale(state, min, max)]]

\* a call of the closure that returns min early on an empty range
CallGuarded(state, min, max) ==
  IF LessEq(max, min)
  THEN [state |-> state, completion |-> [kind |-> "return", value |-> min]]
  ELSE [state |-> NextState(state),
        completion |-> [kind |-> "return",
                        value |-> Scale(NextState(state), min, max)]]

\* a call of the closure that adds max instead of min after scaling
CallOffsetMax(state, min, max) ==
  [state |-> NextState(state),
   completion |-> [kind |-> "return",
                   value |-> Add(FloorDivPow2(Mul(NextState(state), Sub(max, min)),
                                              ModulusBits), max)]]

\* lines 7-10: one call of the closure on a generator whose state is `state`:
\* the state it leaves and how it completes (the body has no throw)
Call(state, min, max) ==
  LET updated == NextState(state)
  IN  [state |-> updated,
       completion |-> [kind |-> "return", value |-> Scale(updated, min, max)]]

(*------------------------------ the program ------------------------------*)
\* bound on the number of calls made on all generators together
MaxDraws == 4

\* two closures returned by two calls of seededRandom
Gens == {"A", "B"}

\* seeds: the documented seed 1, a negative seed and a seed beyond 2^32
Seeds == {Int2Num(1), Int2Num(0 - 1000), Pow2(33)}

\* bounds (min, max): the documented range, an empty and a reversed range
Args == {<<Int2Num(1), Int2Num(10)>>, <<Int2Num(5), Int2Num(5)>>,
         <<Int2Num(10), Int2Num(1)>>}

\* seeds of the wide-range runs: also the modulus itself and the seed
\* 653637408, whose first state is the largest residue 2^31 - 1
WideSeeds == Seeds \cup {Modulus, Int2Num(653637408)}

\* bounds of the wide-range runs: max at the modulus and one above it
WideArgs == {<<Zero, Modulus>>, <<Zero, ExactAdd(Modulus, Int2Num(1))>>,
             <<Int2Num(1), Int2Num(10)>>}

\* callers (tasks, callbacks) that share one closure
Callers == {"c1", "c2"}
NoCaller == "none"

\* the frame of a caller that is not inside a call of the closure
Idle == [pc |-> "idle", gen |-> "A", min |-> Zero, max |-> Zero]

\* seed, state, calls, outs: per generator, its seed, its private state and
\*   the bounds and completions of its completed calls, in order
\* frame: per caller, the call of the closure it is inside and the line it is at
\* running: the caller that holds the single thread
\* reads: per generator, who made each completed call and the state that its
\*   return expression read
VARIABLES seed, state, calls, outs, frame, running, reads

vars == <<seed, state, calls, outs, frame, running, reads>>

\* lines 5-6: the closure's private state starts as the seed
seededRandom(s) == s

Init ==
  /\ seed \in [Gens -> Seeds]
  /\ state = [g \in Gens |-> seededRandom(seed[g])]
  /\ calls = [g \in Gens |-> <<>>]
  /\ outs = [g \in Gens |-> <<>>]
  /\ frame = [c \in Callers |-> Idle]
  /\ running = NoCaller
  /\ reads = [g \in Gens |-> <<>>]

TotalDraws == Len(calls["A"]) + Len(calls["B"])

\* every closure closes over one module-level state
randomShared(g, min, max) ==
  /\ TotalDraws < MaxDraws
  /\ LET c == Call(state[g], min, max)
     IN  /\ state' = [h \in Gens |-> c.state]
         /\ outs' = [outs EXCEPT ![g] = Append(@, c.completion)]
  /\ calls' = [calls EXCEPT ![g] = Append(@, <<min, max>>)]
  /\ UNCHANGED <<seed, frame, running, reads>>

\* random(min, max) on generator g
random(g, min, max) ==
  /\ TotalDraws < MaxDraws
  /\ LET c == Call(state[g], min, max)
     IN  /\ state' = [state EXCEPT ![g] = c.state]
         /\ outs' = [outs EXCEPT ![g] = Append(@, c.completion)]
  /\ calls' = [calls EXCEPT ![g] = Append(@, <<min, max>>)]
  /\ UNCHANGED <<seed, frame, running, reads>>

Next == \E g \in Gens : \E a \in Args : random(g, a[1], a[2])

Spec == Init /\ [][Next]_vars

\* one generator drawn over wide ranges, its twin left alone
InitWide ==
  /\ seed \in [Gens -> WideSeeds]
  /\ seed["A"] = seed["B"]
  /\ state = [g \in Gens |-> seededRandom(seed[g])]
  /\ calls = [g \in Gens |-> <<>>]
  /\ outs = [g \in Gens |-> <<>>]
  /\ frame = [c \in Callers |-> Idle]
  /\ running = NoCaller
  /\ reads = [g \in Gens |-> <<>>]

NextWide == \E a \in WideArgs : random("A", a[1], a[2])

SpecWide == InitWide /\ [][NextWide]_vars

(*----------------- the closure called by several callers -----------------*)
\* the single thread runs the next statement of caller c when c holds it, and
\* resumes a suspended call of c when no caller holds it
MayRun(c) ==
  \/ running = c
  \/ running = NoCaller /\ frame[c].pc # "idle"

\* line 7: caller c enters the closure of generator g with bounds (min, max)
invoke(c, g, min, max) ==
  /\ running = NoCaller
  /\ frame[c].pc = "idle"
  /\ TotalDraws + Cardinality({d \in Callers : frame[d].pc # "idle"}) < MaxDraws
  /\ frame' = [frame EXCEPT ![c] = [pc |-> "line8", gen |-> g, min |-> min, max |-> max]]
  /\ running' = c
  /\ UNCHANGED <<seed, state, calls, outs, reads>>

\* line 8 followed by a suspension point: the caller gives up the thread
line8Await(c) ==
  /\ MayRun(c)
  /\ frame[c].pc = "line8"
  /\ state' = [state EXCEPT ![frame[c].gen] = NextState(@)]
  /\ frame' = [frame EXCEPT ![c].pc = "line9"]
  /\ running' = NoCaller
  /\ UNCHANGED <<seed, calls, outs, reads>>

\* line 8: the state update; the caller keeps the thread
line8(c) ==
  /\ MayRun(c)
  /\ frame[c].pc = "line8"
  /\ state' = [state EXCEPT ![frame[c].gen] = NextState(@)]
  /\ frame' = [frame EXCEPT ![c].pc = "line9"]
  /\ running' = c
  /\ UNCHANGED <<seed, calls, outs, reads>>

\* line 9: the return expression reads the state; the call completes and the
\* caller releases the thread
line9(c) ==
  /\ MayRun(c)
  /\ frame[c].pc = "line9"
  /\ LET g == frame[c].gen
     IN  /\ outs' = [outs EXCEPT ![g] =
                      Append(@, [kind |-> "return",
                                 value |-> Scale(state[g], frame[c].min, frame[c].max)])]
         /\ calls' = [calls EXCEPT ![g] = Append(@, <<frame[c].min, frame[c].max>>)]
         /\ reads' = [reads EXCEPT ![g] = Append(@, [caller |-> c, state |-> state[g]])]
  /\ frame' = [frame EXCEPT ![c] = Idle]
  /\ running' = NoCaller
  /\ UNCHANGED <<seed, state>>

\* both callers share the closure of generator A
InitCallers ==
  /\ seed \in [Gens -> Seeds]
  /\ seed["A"] = seed["B"]
  /\ state = [g \in Gens |-> seededRandom(seed[g])]
  /\ calls = [g \in Gens |-> <<>>]
  /\ outs = [g \in Gens |-> <<>>]
  /\ frame = [c \in Callers |-> Idle]
  /\ running = NoCaller
  /\ reads = [g \in Gens |-> <<>>]

NextCallers ==
  \E c \in Callers :
    \/ \E a \in Args : invoke(c, "A", a[1], a[2])
    \/ line8(c)
    \/ line9(c)

SpecCallers == InitCallers /\ [][NextCallers]_vars

(*------------------------------- properties ------------------------------*)
Min(g, i) == calls[g][i][1]
Max(g, i) == calls[g][i][2]
Draws(g) == 1..Len(calls[g])

\* the states of a generator of state s after each of its next n calls
RECURSIVE Orbit(_, _)
Orbit(s, n) ==
  IF n = 0 THEN <<>>
  ELSE LET t == NextState(s) IN <<t>> \o Orbit(t, n - 1)

\* C1: every draw(min, max) with max > min, on any seed and after any number
\* of earlier draws, returns v with min <= v < max
C1_Bounds ==
  \A g \in Gens : \A i \in Draws(g) :
    Less(Min(g, i), Max(g, i)) =>
      /\ outs[g][i].kind = "return"
      /\ LessEq(Min(g, i), outs[g][i].value)
      /\ Less(outs[g][i].value, Max(g, i))

\* C2: two generators constructed with the same seed return the same i-th
\* output whenever they were fed the same first i calls
C2_Determinism ==
  \A g \in Gens : \A h \in Gens \ {g} :
    seed[g] = seed[h] =>
      \A i \in Draws(g) \cap Draws(h) :
        SubSeq(calls[g], 1, i) = SubSeq(calls[h], 1, i) => outs[g][i] = outs[h][i]

C2_Witness ==
  /\ seed["A"] = seed["B"]
  /\ Len(calls["A"]) = 2
  /\ calls["A"] = calls["B"]
  /\ calls["A"][1] # calls["A"][2]
  /\ outs["A"] = outs["B"]

FourDraws == [i \in 1..4 |-> <<Int2Num(1), Int2Num(10)>>]
Returned(v) == [kind |-> "return", value |-> Int2Num(v)]

\* C3: seed 1 drawn four times with (1, 10) returns 5, 7, 1, 4
C3_KnownVector ==
  \A g \in Gens :
    (seed[g] = Int2Num(1) /\ calls[g] = FourDraws) =>
      outs[g] = <<Returned(5), Returned(7), Returned(1), Returned(4)>>

C3_Witness ==
  /\ seed["A"] = Int2Num(1)
  /\ calls["A"] = FourDraws
  /\ Len(outs["A"]) = 4

\* the outputs of a generator seeded with s and fed cs with no other
\* generator in the program
RECURSIVE AloneFrom(_, _, _)
AloneFrom(s, cs, i) ==
  IF i > Len(cs) THEN <<>>
  ELSE LET c == Call(s, cs[i][1], cs[i][2])
       IN  <<c.completion>> \o AloneFrom(c.state, cs, i + 1)

Alone(s, cs) == AloneFrom(s, cs, 1)

\* C4: a draw on one generator leaves the state and the outputs of every
\* other generator unchanged, and under any interleaving every generator's
\* outputs are those it returns when it is the only one called
C4_Independence ==
  [][\A g \in Gens :
       calls'[g] # calls[g] =>
         /\ \A h \in Gens \ {g} : state'[h] = state[h] /\ outs'[h] = outs[h]
         /\ \A h \in Gens : outs'[h] = Alone(seed[h], calls'[h])]_vars

C4_Witness ==
  /\ seed["A"] = seed["B"]
  /\ Len(calls["A"]) = 2
  /\ Len(calls["B"]) = 1
  /\ state["A"] # state["B"]
  /\ state["B"] = NextState(seed["B"])

\* C5 as claimed: a draw with min == max or max < min raises an error and
\* returns no value
C5_RaisesOnEmptyRange ==
  \A g \in Gens : \A i \in Draws(g) :
    LessEq(Max(g, i), Min(g, i)) => outs[g][i].kind = "throw"

\* C5 amended: a draw with min == max or max < min raises no error; it
\* returns min when min == max and a v with max <= v < min + (min - max)
\* when max < min
C5_EmptyRangeReturns ==
  \A g \in Gens : \A i \in Draws(g) :
    LessEq(Max(g, i), Min(g, i)) =>
      /\ outs[g][i].kind = "return"
      /\ Min(g, i) = Max(g, i) => outs[g][i].value = Min(g, i)
      /\ Less(Max(g, i), Min(g, i)) =>
           /\ LessEq(Max(g, i), outs[g][i].value)
           /\ Less(outs[g][i].value,
                   ExactAdd(Min(g, i), ExactAdd(Min(g, i), Neg(Max(g, i)))))

C5_Witness ==
  \E g \in Gens : \E i \in Draws(g) : \E j \in Draws(g) :
    /\ Less(Max(g, i), Min(g, i))
    /\ Less(Min(g, i), outs[g][i].value)
    /\ Min(g, j) = Max(g, j)
    /\ outs[g][j].value = Min(g, j)

\* C6: draw(0, 2147483648) never returns 2147483648: the value returned is
\* strictly below max
C6_WideRangeExclusive ==
  \A g \in Gens : \A i \in Draws(g) :
    calls[g][i] = <<Zero, Modulus>> =>
      /\ outs[g][i].kind = "return"
      /\ outs[g][i].value # Modulus
      /\ Less(outs[g][i].value, Modulus)

C6_Witness ==
  \E g \in Gens : \E i \in Draws(g) :
    /\ calls[g][i] = <<Zero, Modulus>>
    /\ outs[g][i].value = ExactAdd(Modulus, Int2Num(0 - 1))

\* the step and the result as C7 states them, in exact integer arithmetic
\* with the mathematical residue
RefState(s) ==
  LET r == Rem(ExactAdd(ExactMul(s, Int2Num(Multiplier)), Int2Num(Increment)),
               ModulusBits)
  IN  IF r.neg THEN ExactAdd(r, Modulus) ELSE r

RECURSIVE RefOrbit(_, _)
RefOrbit(s, n) ==
  IF n = 0 THEN <<>>
  ELSE LET t == RefState(s) IN <<t>> \o RefOrbit(t, n - 1)

RefValue(s, min, max) ==
  ExactAdd(FloorDivPow2(ExactMul(s, ExactAdd(max, Neg(min))), ModulusBits), min)

\* C7: the state is the seed after construction, each draw replaces it by
\* (state * 1664525 + 1013904223) mod 2147483648 and returns
\* floor(newState * (max - min) / 2147483648) + min of the new state
C7_ReferenceStep ==
  \A g \in Gens :
    LET n == Len(calls[g])
        orbit == RefOrbit(seed[g], n)
    IN
    /\ state[g] = IF n = 0 THEN seed[g] ELSE orbit[n]
    /\ \A i \in Draws(g) :
         outs[g][i] = [kind |-> "return",
                       value |-> RefValue(orbit[i], Min(g, i), Max(g, i))]

\* C8: after every draw, on any seed, 0 <= state < 2147483648
C8_StateRange ==
  \A g \in Gens :
    Len(calls[g]) >= 1 => ~state[g].neg /\ Less(state[g], Modulus)

\* C9: after n draws the state is the n-fold step of the seed whatever bounds
\* were passed, the i-th value is computed from that state and the i-th bounds
\* alone, and two generators of one seed return the same i-th value for the
\* same i-th bounds whatever their earlier bounds were
C9_StepIgnoresBounds ==
  \A g \in Gens :
    LET n == Len(calls[g])
        orbit == Orbit(seed[g], n)
    IN
    /\ state[g] = IF n = 0 THEN seed[g] ELSE orbit[n]
    /\ \A i \in Draws(g) :
         /\ outs[g][i].value = Scale(orbit[i], Min(g, i), Max(g, i))
         /\ \A h \in Gens \ {g} :
              (seed[h] = seed[g] /\ i \in Draws(h) /\ calls[h][i] = calls[g][i])
                => outs[h][i] = outs[g][i]

C9_Witness ==
  /\ seed["A"] = seed["B"]
  /\ Len(calls["A"]) = 2
  /\ Len(calls["B"]) = 2
  /\ calls["A"][1] # calls["B"][1]
  /\ calls["A"][2] = calls["B"][2]
  /\ outs["A"][2] = outs["B"][2]
  /\ state["A"] = state["B"]

\* the exact value of state * 1664525 + 1013904223
Intermediate(s) == ExactAdd(ExactMul(s, Int2Num(Multiplier)), Int2Num(Increment))

\* C10: on every draw the magnitude of state * 1664525 + 1013904223 is
\* below 2^53
C10_ExactIntermediate ==
  [][\A g \in Gens :
       calls'[g] # calls[g] =>
         MagLess(Intermediate(state[g]).mag, MagPow2(Significand))]_vars

\* the calls in progress on generator g, and those of them past line 8
Active(g) == {c \in Callers : frame[c].pc # "idle" /\ frame[c].gen = g}
Updated(g) == {c \in Active(g) : frame[c].pc = "line9"}

\* C11: a call in progress holds the thread until it completes, so at most
\* one call is in progress at a time; the state has advanced one step per
\* completed call (and one for the call past its update), the i-th completed
\* call read the i-th state, and consecutive calls read different states
C11_AtomicDraws ==
  /\ \A c \in Callers : frame[c].pc # "idle" => running = c
  /\ Cardinality({c \in Callers : frame[c].pc # "idle"}) <= 1
  /\ \A g \in Gens :
       LET n == Len(outs[g])
           k == n + Cardinality(Updated(g))
           orbit == Orbit(seed[g], k)
       IN  /\ state[g] = IF k = 0 THEN seed[g] ELSE orbit[k]
           /\ Len(reads[g]) = n
           /\ Len(calls[g]) = n
           /\ \A i \in 1..n :
                /\ reads[g][i].state = orbit[i]
                /\ outs[g][i].value = Scale(orbit[i], Min(g, i), Max(g, i))
           /\ \A i \in 1..(n - 1) : reads[g][i].state # reads[g][i + 1].state

C11_Witness ==
  /\ running = NoCaller
  /\ Len(reads["A"]) = 3
  /\ reads["A"][1].caller = "c1"
  /\ reads["A"][2].caller = "c2"
  /\ reads["A"][3].caller = "c1"
  /\ state["A"] = reads["A"][3].state

InRange(s) == ~s.neg /\ Less(s, Modulus)

\* C12: a draw from a state with 0 <= state < 2147483648 leaves a state in
\* that range (so every later draw starts from such a state too) and, when
\* max > min, returns v with min <= v < max
C12_NonNegativeAbsorbing ==
  [][\A g \in Gens :
       (calls'[g] # calls[g] /\ InRange(state[g])) =>
         LET i == Len(calls'[g])
             min == calls'[g][i][1]
             max == calls'[g][i][2]
         IN  /\ InRange(state'[g])
             /\ Less(min, max) =>
                  /\ outs'[g][i].kind = "return"
                  /\ LessEq(min, outs'[g][i].value)
                  /\ Less(outs'[g][i].value, max)]_vars

\* from the seed 653637408 the first draw, over (0, 2147483649), is scaled
\* from the largest state and rounds up to 2147483648, still below max
C12_Witness ==
  /\ seed["A"] = Int2Num(653637408)
  /\ Len(calls["A"]) >= 2
  /\ calls["A"][1] = <<Zero, ExactAdd(Modulus, Int2Num(1))>>
  /\ outs["A"][1].value = Modulus
  /\ InRange(state["A"])

====
